---- MODULE Spec2Model ----
(***************************************************************************)
(* Model of spyder/plugins/projects/widgets/configdialog.py: the write     *)
(* probe is_writable, BaseProjectPage._validate_location,                  *)
(* BaseProjectPage._compose_failed_validation_text,                        *)
(* ExistingDirectoryPage.validate_page and ConfigDialog.create_project,    *)
(* over a small POSIX filesystem.                                          *)
(*                                                                         *)
(* A path is a record [abs, parts]: parts are the components between the   *)
(* slashes, abs says whether the string starts with a slash.  The empty    *)
(* string is [abs |-> FALSE, parts |-> <<>>], "/" is [abs |-> TRUE,        *)
(* parts |-> <<>>].  The filesystem holds the root directory (owned by     *)
(* somebody else: not writable, holding only "a") and one entry "a" whose  *)
(* kind, permission and children vary.  The working directory is the root. *)
(***************************************************************************)
EXTENDS Integers, Sequences, FiniteSets, TLC

VARIABLES
    text,           \* self._location.textbox.text()
    fs,             \* the filesystem
    label_visible,  \* self._validation_label.isVisible()
    label_text,     \* the text of self._validation_label
    icon_visible,   \* self._location.status_action.isVisible()
    icon_tip,       \* self._location.status_action.toolTip()
    reasons,        \* the ValidationReasons a caller holds (None or Some)
    project_data,   \* ConfigDialog.project_data
    last            \* the call the latest step made, its outcome

vars == <<text, fs, label_visible, label_text, icon_visible, icon_tip,
          reasons, project_data, last>>

\* ---------------------------------------------------------------- bounds
MaxParts == 2   \* components of a typed path
MaxSize == 1    \* size of a file found in the directory before the probe

\* ---------------------------------------------------------------- values
None == <<>>
Some(x) == <<x>>

Sentinel == "__spyder_write_test__.txt"
SpyProject == ".spyproject"

Comps == {"a", ".", ".."}

RECURSIVE SeqsUpTo(_, _)
SeqsUpTo(S, n) ==
    IF n = 0 THEN {<<>>}
    ELSE LET shorter == SeqsUpTo(S, n - 1)
         IN  shorter \cup {Append(s, c) : s \in shorter, c \in S}

Paths == [abs : BOOLEAN, parts : SeqsUpTo(Comps, MaxParts)]

EmptyText == [abs |-> FALSE, parts |-> <<>>]

\* ------------------------------------------------------------ filesystem
NoEntry == [k |-> "none", size |-> 0, w |-> FALSE]
DirEntry == [k |-> "dir", size |-> 0, w |-> FALSE]
FileEntries == [k : {"file"}, size : 0..MaxSize, w : BOOLEAN]

\* The states of entry "a": missing, a regular file, or a directory with
\* its write permission, its sentinel entry and two possible subdirectories.
FsStates ==
    { [kind |-> "none", w |-> FALSE, sentinel |-> NoEntry,
       spy |-> FALSE, proj |-> FALSE],
      [kind |-> "file", w |-> FALSE, sentinel |-> NoEntry,
       spy |-> FALSE, proj |-> FALSE] }
    \cup [kind : {"dir"}, w : BOOLEAN,
          sentinel : {NoEntry, DirEntry} \cup FileEntries,
          spy : BOOLEAN, proj : BOOLEAN]

\* The kind of the node at an absolute, symbolic-link free node path.
Kind(f, node) ==
    IF node = <<>> THEN "dir"
    ELSE IF node = <<"a">> THEN f.kind
    ELSE IF Len(node) = 2 /\ node[1] = "a" /\ f.kind = "dir" THEN
        CASE node[2] = Sentinel -> f.sentinel.k
          [] node[2] = SpyProject -> IF f.spy THEN "dir" ELSE "none"
          [] node[2] = "proj" -> IF f.proj THEN "dir" ELSE "none"
          [] OTHER -> "none"
    ELSE "none"

\* The kernel's path walk from node cur: the node reached, or the error.
RECURSIVE Walk(_, _, _)
Walk(f, cur, parts) ==
    IF parts = <<>> THEN [err |-> "none", node |-> cur]
    ELSE IF Kind(f, cur) = "none" THEN [err |-> "ENOENT", node |-> cur]
    ELSE IF Kind(f, cur) # "dir" THEN [err |-> "ENOTDIR", node |-> cur]
    ELSE LET c == Head(parts)
             next == IF c \in {"", "."} THEN cur
                     ELSE IF c = ".." THEN
                         (IF cur = <<>> THEN cur
                          ELSE SubSeq(cur, 1, Len(cur) - 1))
                     ELSE Append(cur, c)
         IN  Walk(f, next, Tail(parts))

Resolve(f, path) ==
    LET r == Walk(f, <<>>, path.parts)
    IN  IF r.err # "none" THEN r
        ELSE IF Kind(f, r.node) = "none" THEN [err |-> "ENOENT", node |-> r.node]
        ELSE r

\* os.path.isdir
isdir(f, path) ==
    LET r == Resolve(f, path)
    IN  r.err = "none" /\ Kind(f, r.node) = "dir"

\* os.path.join with a relative second argument
join(path, name) == [abs |-> path.abs, parts |-> Append(path.parts, name)]

\* os.path.normpath
RECURSIVE NormParts(_, _, _)
NormParts(abs, parts, acc) ==
    IF parts = <<>> THEN acc
    ELSE LET c == Head(parts)
             acc2 ==
                 IF c \in {"", "."} THEN acc
                 ELSE IF c # ".."
                         \/ (~abs /\ acc = <<>>)
                         \/ (acc # <<>> /\ acc[Len(acc)] = "..")
                      THEN Append(acc, c)
                 ELSE IF acc # <<>> THEN SubSeq(acc, 1, Len(acc) - 1)
                 ELSE acc
         IN  NormParts(abs, Tail(parts), acc2)

normpath(path) ==
    LET p == NormParts(path.abs, path.parts, <<>>)
    IN  IF ~path.abs /\ p = <<>> THEN [abs |-> FALSE, parts |-> <<".">>]
        ELSE [abs |-> path.abs, parts |-> p]

\* Whether the process may add and remove entries of directory node.
DirWritable(f, node) == node = <<"a">> /\ f.w

\* The filesystem with the sentinel entry of "a" replaced.
WithSentinel(f, e) == [f EXCEPT !.sentinel = e]

\* The directory part of a file path, walked by the kernel.
WalkDir(f, filepath) ==
    Walk(f, <<>>, SubSeq(filepath.parts, 1, Len(filepath.parts) - 1))

\* open(..., 'w') of entry n in the directory the walk d reached.
OpenAt(f, d, n) ==
    IF d.err = "ENOENT" \/ (d.err = "none" /\ Kind(f, d.node) = "none")
        THEN [exc |-> "FileNotFoundError", fs |-> f]
    ELSE IF d.err = "ENOTDIR" \/ Kind(f, d.node) # "dir"
        THEN [exc |-> "NotADirectoryError", fs |-> f]
    ELSE IF Kind(f, Append(d.node, n)) = "dir"
        THEN [exc |-> "IsADirectoryError", fs |-> f]
    ELSE IF Kind(f, Append(d.node, n)) = "file"
        THEN IF f.sentinel.w
             THEN [exc |-> "none",
                   fs |-> WithSentinel(f, [f.sentinel EXCEPT !.size = 0])]
             ELSE [exc |-> "PermissionError", fs |-> f]
    ELSE IF DirWritable(f, d.node)
        THEN [exc |-> "none",
              fs |-> WithSentinel(f, [k |-> "file", size |-> 0, w |-> TRUE])]
    ELSE [exc |-> "PermissionError", fs |-> f]

\* open(filepath, 'w') followed by close(): the exception raised ("none" when
\* none) and the filesystem left.  An existing file is truncated, a missing
\* one is created.
OpenWrite(f, filepath) ==
    OpenAt(f, WalkDir(f, filepath), filepath.parts[Len(filepath.parts)])

\* os.remove(filepath) of a file that open() has just written.
Remove(f, filepath) ==
    IF DirWritable(f, WalkDir(f, filepath).node)
    THEN [exc |-> "none", fs |-> WithSentinel(f, NoEntry)]
    ELSE [exc |-> "PermissionError", fs |-> f]

\* The exceptions is_writable catches.
Caught == {"FileNotFoundError", "PermissionError"}

\* The try statement after a step that ended as o: the except clause
\* returns False, any other exception escapes.
Except(o) ==
    IF o.exc \in Caught THEN [ret |-> "False", exc |-> "none", fs |-> o.fs]
    ELSE [ret |-> "raise", exc |-> o.exc, fs |-> o.fs]

\* The rest of is_writable after os.remove ended as r.
AfterRemove(r) ==
    IF r.exc # "none" THEN Except(r)
    ELSE [ret |-> "True", exc |-> "none", fs |-> r.fs]

\* The rest of is_writable after open() and close() ended as o.
AfterOpen(o, filepath) ==
    IF o.exc # "none" THEN Except(o)
    ELSE AfterRemove(Remove(o.fs, filepath))

\* is_writable(path): ret is "True", "False" or "raise" (exc escapes).
is_writable(f, path) ==
    AfterOpen(OpenWrite(f, join(path, Sentinel)), join(path, Sentinel))

\* ------------------------------------------------- ValidationReasons
Flags == {"missing_info", "no_location", "location_exists",
          "location_not_writable", "spyder_project_exists"}

\* The dictionaries a ValidationReasons may be: any subset of the keys, each
\* with a boolean value.
ReasonsRecords == UNION {[D -> BOOLEAN] : D \in SUBSET Flags}

EmptyReasons == [k \in {} |-> TRUE]

\* reasons[flag] = True
SetFlag(r, flag) ==
    [k \in DOMAIN r \cup {flag} |-> IF k = flag THEN TRUE ELSE r[k]]

\* reasons.get(flag), as a condition
Get(r, flag) == flag \in DOMAIN r /\ r[flag]

TrueFlags(r) == {k \in DOMAIN r : r[k]}

\* ---------------------------------------------------------- the messages
TipEmpty == "This is empty"
TipNoDir == "This directory doesn't exist"
TipNotWritable == "This directory is not writable"
TipProject == "You selected a Spyder project"

MsgExists == "The directory you selected for this project already exists."
MsgProject == "This directory is already a Spyder project."
MsgNotWritable ==
    "You don't have write permissions in the location you selected."
MsgNoLocation == "The location you selected doesn't exist."
MsgMissing == "There are missing fields on this page."

\* ----------------------------------------------------- _validate_location
\* The state a call leaves: the record, the status icon, the filesystem, the
\* exception that escapes ("none" when the call returns) and whether
\* is_writable was called.
Outcome(r, iv, it, f, exc, probed) ==
    [reasons |-> r, icon_visible |-> iv, icon_tip |-> it, fs |-> f,
     exc |-> exc, probed |-> probed]

\* AfterProbe with the name and '.spyproject' checks in an if of their own,
\* not in the elif chain: they run after a failed probe as well.
AfterProbeFallThrough(wr, r0, iv, it, location, name) ==
    IF wr.ret = "raise" THEN
        Outcome(r0, iv, it, wr.fs, wr.exc, TRUE)
    ELSE IF name # None THEN
        IF isdir(wr.fs, join(location, name[1]))
        THEN Outcome(SetFlag(IF wr.ret = "False"
                             THEN SetFlag(r0, "location_not_writable")
                             ELSE r0, "location_exists"),
                     IF wr.ret = "False" THEN TRUE ELSE iv,
                     IF wr.ret = "False" THEN TipNotWritable ELSE it,
                     wr.fs, "none", TRUE)
        ELSE Outcome(IF wr.ret = "False"
                     THEN SetFlag(r0, "location_not_writable") ELSE r0,
                     IF wr.ret = "False" THEN TRUE ELSE iv,
                     IF wr.ret = "False" THEN TipNotWritable ELSE it,
                     wr.fs, "none", TRUE)
    ELSE
        IF isdir(wr.fs, join(location, SpyProject))
        THEN Outcome(SetFlag(IF wr.ret = "False"
                             THEN SetFlag(r0, "location_not_writable")
                             ELSE r0, "spyder_project_exists"),
                     TRUE, TipProject, wr.fs, "none", TRUE)
        ELSE Outcome(IF wr.ret = "False"
                     THEN SetFlag(r0, "location_not_writable") ELSE r0,
                     IF wr.ret = "False" THEN TRUE ELSE iv,
                     IF wr.ret = "False" THEN TipNotWritable ELSE it,
                     wr.fs, "none", TRUE)

\* AfterProbe without the branch on name: the '.spyproject' check is made
\* whether a name is given or not.
AfterProbeNameIgnored(wr, r0, iv, it, location, name) ==
    IF wr.ret = "raise" THEN
        Outcome(r0, iv, it, wr.fs, wr.exc, TRUE)
    ELSE IF wr.ret = "False" THEN
        Outcome(SetFlag(r0, "location_not_writable"), TRUE, TipNotWritable,
                wr.fs, "none", TRUE)
    ELSE
        IF isdir(wr.fs, join(location, SpyProject))
        THEN Outcome(SetFlag(r0, "spyder_project_exists"), TRUE, TipProject,
                     wr.fs, "none", TRUE)
        ELSE Outcome(r0, iv, it, wr.fs, "none", TRUE)

\* The branches after is_writable(location) ended as wr.
AfterProbe(wr, r0, iv, it, location, name) ==
    IF wr.ret = "raise" THEN
        Outcome(r0, iv, it, wr.fs, wr.exc, TRUE)
    ELSE IF wr.ret = "False" THEN
        Outcome(SetFlag(r0, "location_not_writable"), TRUE, TipNotWritable,
                wr.fs, "none", TRUE)
    ELSE IF name # None THEN
        IF isdir(wr.fs, join(location, name[1]))
        THEN Outcome(SetFlag(r0, "location_exists"), iv, it, wr.fs, "none",
                     TRUE)
        ELSE Outcome(r0, iv, it, wr.fs, "none", TRUE)
    ELSE
        IF isdir(wr.fs, join(location, SpyProject))
        THEN Outcome(SetFlag(r0, "spyder_project_exists"), TRUE, TipProject,
                     wr.fs, "none", TRUE)
        ELSE Outcome(r0, iv, it, wr.fs, "none", TRUE)

\* The if/elif chain on the record r0.
Checks(f, iv, it, location, r0, name) ==
    IF location = EmptyText THEN
        Outcome(SetFlag(r0, "missing_info"), TRUE, TipEmpty, f, "none", FALSE)
    ELSE IF ~isdir(f, location) THEN
        Outcome(SetFlag(r0, "no_location"), TRUE, TipNoDir, f, "none", FALSE)
    ELSE AfterProbe(is_writable(f, location), r0, iv, it, location, name)

\* _validate_location starting a new record on every call, whatever record
\* it is given.
_validate_location_fresh(f, iv, it, location, rs, name) ==
    Checks(f, iv, it, location, EmptyReasons, name)

\* BaseProjectPage._validate_location(location, reasons, name), called with
\* the filesystem f and the status icon (iv, it).
_validate_location(f, iv, it, location, rs, name) ==
    Checks(f, iv, it, location,
           IF rs = None THEN EmptyReasons ELSE rs[1], name)

\* ------------------------------------- _compose_failed_validation_text
\* The composition with the missing_info message as the last elif of the
\* chain instead of an if of its own.
compose_missing_in_chain(r) ==
    LET n_reasons == Cardinality(TrueFlags(r))
        prefix == IF n_reasons > 1 THEN <<"- ">> ELSE <<>>
        suffix == IF n_reasons > 1 THEN <<"<br>">> ELSE <<>>
    IN  IF Get(r, "location_exists") THEN prefix \o <<MsgExists>> \o suffix
        ELSE IF Get(r, "spyder_project_exists")
            THEN prefix \o <<MsgProject>> \o suffix
        ELSE IF Get(r, "location_not_writable")
            THEN prefix \o <<MsgNotWritable>> \o suffix
        ELSE IF Get(r, "no_location")
            THEN prefix \o <<MsgNoLocation>> \o suffix
        ELSE IF Get(r, "missing_info") THEN prefix \o <<MsgMissing>>
        ELSE <<>>

\* The text is the sequence of its pieces: prefixes, messages, suffixes.
_compose_failed_validation_text(r) ==
    LET n_reasons == Cardinality(TrueFlags(r))
        prefix == IF n_reasons > 1 THEN <<"- ">> ELSE <<>>
        suffix == IF n_reasons > 1 THEN <<"<br>">> ELSE <<>>
        location_part ==
            IF Get(r, "location_exists") THEN prefix \o <<MsgExists>> \o suffix
            ELSE IF Get(r, "spyder_project_exists")
                THEN prefix \o <<MsgProject>> \o suffix
            ELSE IF Get(r, "location_not_writable")
                THEN prefix \o <<MsgNotWritable>> \o suffix
            ELSE IF Get(r, "no_location")
                THEN prefix \o <<MsgNoLocation>> \o suffix
            ELSE <<>>
        missing_part ==
            IF Get(r, "missing_info") THEN prefix \o <<MsgMissing>> ELSE <<>>
    IN  location_part \o missing_part

\* ---------------------------------- ExistingDirectoryPage.validate_page
\* The rest of validate_page after _validate_location ended as v.
PageResult(v, lt) ==
    IF v.exc # "none" THEN
        [ret |-> "raise", exc |-> v.exc, fs |-> v.fs, probed |-> v.probed,
         label_visible |-> FALSE, label_text |-> lt,
         icon_visible |-> v.icon_visible, icon_tip |-> v.icon_tip]
    ELSE IF DOMAIN v.reasons # {} THEN
        [ret |-> "False", exc |-> "none", fs |-> v.fs, probed |-> v.probed,
         label_visible |-> TRUE,
         label_text |-> _compose_failed_validation_text(v.reasons),
         icon_visible |-> v.icon_visible, icon_tip |-> v.icon_tip]
    ELSE
        [ret |-> "True", exc |-> "none", fs |-> v.fs, probed |-> v.probed,
         label_visible |-> FALSE, label_text |-> lt,
         icon_visible |-> v.icon_visible, icon_tip |-> v.icon_tip]

\* The location without the test for an empty text: normpath("") is ".".
PageLocationNormalised(txt) == normpath(txt)

\* The location validate_page checks: the text normalised, unless empty.
PageLocation(txt) == IF txt # EmptyText THEN normpath(txt) ELSE EmptyText

\* validate_page without the line that hides the status icon first.
validate_page_keeps_icon(f, txt, lt, it) ==
    PageResult(_validate_location(f, icon_visible, it, PageLocation(txt),
                                  None, None),
               lt)

\* validate_page() with the field text txt, the filesystem f, the label
\* text lt and the icon's tooltip it: the value returned ("True", "False",
\* or "raise" when an exception escapes) and the state left.  The label and
\* the icon are hidden first; their text and tooltip stay.
validate_page(f, txt, lt, it) ==
    PageResult(_validate_location(f, FALSE, it, PageLocation(txt), None, None),
               lt)

\* ------------------------------------------------------------ the state
\* The call the latest step made (NoCall when that step was none, an edit or
\* a change of the filesystem): the operation, what it returned, the
\* exception that escaped it, whether it ran the write probe, the name it
\* was given.
NoCall == [op |-> "none", ret |-> "none", exc |-> "none", probed |-> FALSE,
           name |-> None]

\* BaseProjectPage.__init__ and ConfigDialog.__init__
InitWidgets ==
    /\ text = EmptyText
    /\ label_visible = FALSE
    /\ label_text = <<>>
    /\ icon_visible = FALSE
    /\ icon_tip = ""
    /\ reasons = None
    /\ project_data = <<>>
    /\ last = NoCall

\* ------------------------------------------------------ the environment
\* The user types or deletes one component of the location field, or
\* clears the field.
OneEdit(t, u) ==
    \/ /\ t.abs = u.abs
       /\ Len(u.parts) = Len(t.parts) + 1
       /\ SubSeq(u.parts, 1, Len(t.parts)) = t.parts
    \/ /\ t.abs = u.abs
       /\ Len(t.parts) = Len(u.parts) + 1
       /\ SubSeq(t.parts, 1, Len(u.parts)) = u.parts
    \/ /\ t.parts = <<>>
       /\ u.parts = <<>>
       /\ t.abs # u.abs
    \/ /\ u = EmptyText
       /\ t # EmptyText

EditText(t) ==
    /\ OneEdit(text, t)
    /\ text' = t
    /\ last' = NoCall
    /\ UNCHANGED <<fs, label_visible, label_text, icon_visible, icon_tip,
                   reasons, project_data>>

\* One change of the filesystem by another process: "a" is made or removed
\* (as an empty directory or a file), or one attribute of the directory or
\* of its sentinel entry changes.
OneChange(f, g) ==
    \/ /\ f.kind # g.kind
       /\ f.sentinel = NoEntry /\ ~f.spy /\ ~f.proj
       /\ g.sentinel = NoEntry /\ ~g.spy /\ ~g.proj
    \/ /\ f.kind = "dir" /\ g.kind = "dir"
       /\ Cardinality({k \in {"w", "sentinel", "spy", "proj"} : f[k] # g[k]}) = 1

FsChange(f) ==
    /\ OneChange(fs, f)
    /\ fs' = f
    /\ last' = NoCall
    /\ UNCHANGED <<text, label_visible, label_text, icon_visible, icon_tip,
                   reasons, project_data>>

\* A caller drops the record it holds (and will pass reasons=None) or makes
\* an empty one of its own.
NewRecord(rs) ==
    /\ reasons # rs
    /\ reasons' = rs
    /\ last' = NoCall
    /\ UNCHANGED <<text, fs, label_visible, label_text, icon_visible,
                   icon_tip, project_data>>

\* A caller sets one key of the record it holds: reasons[k] = b.
AssignFlag(k, b) ==
    /\ reasons # None
    /\ ~(k \in DOMAIN reasons[1] /\ reasons[1][k] = b)
    /\ reasons' = Some([j \in DOMAIN reasons[1] \cup {k} |->
                           IF j = k THEN b ELSE reasons[1][j]])
    /\ last' = NoCall
    /\ UNCHANGED <<text, fs, label_visible, label_text, icon_visible,
                   icon_tip, project_data>>

\* ------------------------------------------------------- the write probe
InitProbe == InitWidgets /\ fs \in FsStates

CallIsWritable(path) ==
    \E r \in {is_writable(fs, path)} :
        /\ fs' = r.fs
        /\ last' = [op |-> "is_writable", ret |-> r.ret, exc |-> r.exc,
                    probed |-> TRUE, name |-> None]
        /\ UNCHANGED <<text, label_visible, label_text, icon_visible, icon_tip,
                       reasons, project_data>>

NextProbe ==
    \/ \E path \in Paths \ {EmptyText} : CallIsWritable(path)
    \/ \E f \in FsStates : FsChange(f)

SpecProbe == InitProbe /\ [][NextProbe]_vars

\* -------------------------------------------------- the page in use
Init == InitWidgets /\ fs \in FsStates

ValidatePage ==
    \E r \in {validate_page(fs, text, label_text, icon_tip)} :
        /\ fs' = r.fs
        /\ label_visible' = r.label_visible
        /\ label_text' = r.label_text
        /\ icon_visible' = r.icon_visible
        /\ icon_tip' = r.icon_tip
        /\ last' = [op |-> "validate_page", ret |-> r.ret, exc |-> r.exc,
                    probed |-> r.probed, name |-> None]
        /\ UNCHANGED <<text, reasons, project_data>>

\* ConfigDialog.create_project: the slot of the 'Create' button.
create_project ==
    /\ project_data' = project_data
    /\ last' = [NoCall EXCEPT !.op = "create_project"]
    /\ UNCHANGED <<text, fs, label_visible, label_text, icon_visible,
                   icon_tip, reasons>>

Next ==
    \/ \E t \in Paths : EditText(t)
    \/ \E f \in FsStates : FsChange(f)
    \/ ValidatePage
    \/ create_project

Spec == Init /\ [][Next]_vars

\* --------------------------------- _validate_location called directly
Locations ==
    { EmptyText,
      [abs |-> TRUE, parts |-> <<>>],
      [abs |-> TRUE, parts |-> <<"a">>],
      [abs |-> TRUE, parts |-> <<"a", "a">>] }

Names == {"proj", SpyProject}

InitLoc == InitWidgets /\ fs \in FsStates

\* self._validate_location(location, reasons, name) on the record held (or
\* with reasons=None); the caller keeps the record returned.
CallValidateLocation(location, name) ==
    \E v \in {_validate_location(fs, icon_visible, icon_tip, location,
                             reasons, name)} :
        /\ fs' = v.fs
        /\ icon_visible' = v.icon_visible
        /\ icon_tip' = v.icon_tip
        /\ reasons' = IF v.exc = "none" THEN Some(v.reasons) ELSE reasons
        /\ last' = [op |-> "_validate_location",
                    ret |-> IF v.exc = "none" THEN "reasons" ELSE "raise",
                    exc |-> v.exc, probed |-> v.probed, name |-> name]
        /\ UNCHANGED <<text, label_visible, label_text, project_data>>

NextLoc ==
    \/ \E rs \in {None, Some(EmptyReasons)} : NewRecord(rs)
    \/ \E k \in Flags, b \in BOOLEAN : AssignFlag(k, b)
    \/ \E f \in FsStates : FsChange(f)
    \/ \E location \in Locations, name \in {None} \cup {Some(n) : n \in Names} :
           CallValidateLocation(location, name)

SpecLoc == InitLoc /\ [][NextLoc]_vars

\* ------------------------ _compose_failed_validation_text on any record
InitCompose ==
    /\ InitWidgets
    /\ fs = [kind |-> "none", w |-> FALSE, sentinel |-> NoEntry,
             spy |-> FALSE, proj |-> FALSE]

Compose ==
    /\ reasons # None
    /\ label_text' = _compose_failed_validation_text(reasons[1])
    /\ last' = [NoCall EXCEPT !.op = "_compose_failed_validation_text"]
    /\ UNCHANGED <<text, fs, label_visible, icon_visible, icon_tip, reasons,
                   project_data>>

NextCompose ==
    \/ NewRecord(Some(EmptyReasons))
    \/ \E k \in Flags, b \in BOOLEAN : AssignFlag(k, b)
    \/ Compose

SpecCompose == InitCompose /\ [][NextCompose]_vars

\* ===================================================== the claims
\* One step that is a call of is_writable(path).
ProbeStep(path) == path \in Paths \ {EmptyText} /\ CallIsWritable(path)

\* A file can be created in and removed from the directory at path: the
\* path is an existing directory in which the process may add and remove
\* entries.
CanCreateAndRemove(f, path) ==
    /\ isdir(f, path)
    /\ DirWritable(f, Resolve(f, path).node)

\* The conditions C1 names, on the state before the call.
C1_Passes ==
    /\ text # EmptyText
    /\ isdir(fs, normpath(text))
    /\ is_writable(fs, normpath(text)).ret = "True"
    /\ ~isdir(fs, join(normpath(text), SpyProject))

\* C1: validate_page returns True if and only if the field text is
\* non-empty, its normalised path is an existing directory, is_writable
\* returns True for it and it holds no '.spyproject' directory; in every
\* other case it returns False, for every text and every filesystem state.
C1_ValidatePageTrueIffAllChecksPass ==
    [][ValidatePage =>
         /\ (last'.ret = "True") <=> C1_Passes
         /\ (last'.ret = "False") <=> ~C1_Passes]_vars

\* C5: is_writable leaves the directory as it found it: the files and their
\* contents are the same after the call as before it.
C5_ProbeLeavesDirectoryAsFound ==
    [][\A path \in Paths : ProbeStep(path) => fs' = fs]_vars

\* C6: is_writable is a total boolean check: it returns True exactly when a
\* file can be both created in and removed from the directory and False in
\* every other case; no exception escapes it.
C6_IsWritableTotalAndExact ==
    [][\A path \in Paths : ProbeStep(path) =>
         /\ last'.ret \in {"True", "False"}
         /\ (last'.ret = "True") <=> CanCreateAndRemove(fs, path)]_vars

\* ----------------------------------------------------------------- C4
\* C4: in the state left by the latest validate_page call, the validation
\* label is visible if and only if that call returned False, and so is the
\* error status icon; a failure an earlier call showed does not stay
\* visible after a later call that passes.
C4_LabelAndIconShowLatestFailure ==
    last.op = "validate_page" =>
        /\ label_visible <=> (last.ret = "False")
        /\ icon_visible <=> (last.ret = "False")

\* An earlier call failed (its text is still in the hidden label), the
\* latest one passed, and nothing is shown.
C4_Witness ==
    /\ last.op = "validate_page"
    /\ last.ret = "True"
    /\ label_text # <<>>
    /\ ~label_visible
    /\ ~icon_visible

\* ----------------------------------------------------------------- C9
\* The location validate_page hands to _validate_location, written out.
C9_Location == IF text = EmptyText THEN EmptyText ELSE normpath(text)

\* C9: the checks run in a fixed order and stop at the first that fails:
\* empty, not an existing directory, not writable, then the '.spyproject'
\* check.  The write probe runs only for a location that is non-empty and
\* an existing directory; for an empty or nonexistent location the
\* filesystem is left alone; an empty text is reported as missing_info and
\* is not checked as the current directory.
C9_ChecksInOrderProbeLast ==
    [][ValidatePage =>
         /\ last'.probed <=> (text # EmptyText /\ isdir(fs, C9_Location))
         /\ ~last'.probed => fs' = fs
         /\ text = EmptyText =>
                /\ last'.ret = "False"
                /\ icon_tip' = TipEmpty
                /\ label_text' = <<MsgMissing>>
         /\ (text # EmptyText /\ ~isdir(fs, C9_Location)) =>
                /\ last'.ret = "False"
                /\ icon_tip' = TipNoDir
                /\ label_text' = <<MsgNoLocation>>
         /\ (last'.probed /\ is_writable(fs, C9_Location).ret = "False") =>
                /\ last'.ret = "False"
                /\ icon_tip' = TipNotWritable
                /\ label_text' = <<MsgNotWritable>>
         /\ (last'.probed /\ is_writable(fs, C9_Location).ret = "True") =>
                IF isdir(fs, join(C9_Location, SpyProject))
                THEN /\ last'.ret = "False"
                     /\ icon_tip' = TipProject
                     /\ label_text' = <<MsgProject>>
                ELSE last'.ret = "True"]_vars

\* The field is empty while the working directory exists: the call has
\* reported the missing text and has not probed anything.
C9_Witness ==
    /\ last.op = "validate_page"
    /\ text = EmptyText
    /\ ~last.probed
    /\ last.ret = "False"
    /\ icon_tip = TipEmpty
    /\ label_text = <<MsgMissing>>
    /\ isdir(fs, normpath(text))

\* ------------------------------------------------- C3, C8, C10 (SpecLoc)
\* The record a call works on: a new one when reasons is None.
StartRecord == IF reasons = None THEN EmptyReasons ELSE reasons[1]

\* The latest step is a call of _validate_location that returned.
LocReturned == last'.op = "_validate_location" /\ last'.ret = "reasons"

\* C3: one call of _validate_location started with an empty record returns
\* a record in which at most one of the five flags is set.
C3_AtMostOneFlagPerCall ==
    [][(LocReturned /\ StartRecord = EmptyReasons) =>
           /\ Cardinality(DOMAIN reasons'[1]) <= 1
           /\ Cardinality(TrueFlags(reasons'[1])) <= 1]_vars

\* The directory is not writable and is a Spyder project as well, and the
\* record returned holds the one flag location_not_writable.
C3_Witness ==
    /\ last.op = "_validate_location"
    /\ last.ret = "reasons"
    /\ last.probed
    /\ fs.kind = "dir" /\ ~fs.w /\ fs.spy
    /\ icon_tip = TipNotWritable
    /\ reasons = Some([k \in {"location_not_writable"} |-> TRUE])

\* C8: with a name given and a location that is non-empty, an existing
\* directory and writable, location_exists is set if and only if
\* location/name is an existing directory; no other flag is set (the
\* '.spyproject' check is not made) and the status icon is left as it was.
\* With name None, location_exists is never set.
C8_AlreadyExistsRule ==
    [][LocReturned =>
         /\ \A location \in Locations, n \in Names :
              ( /\ last'.name = Some(n)
                /\ location # EmptyText
                /\ isdir(fs, location)
                /\ is_writable(fs, location).ret = "True"
                /\ CallValidateLocation(location, Some(n)) ) =>
                  /\ reasons'[1] =
                         IF isdir(fs, join(location, n))
                         THEN SetFlag(StartRecord, "location_exists")
                         ELSE StartRecord
                  /\ icon_visible' = icon_visible
                  /\ icon_tip' = icon_tip
         /\ last'.name = None =>
              /\ ("location_exists" \in DOMAIN reasons'[1])
                     <=> ("location_exists" \in DOMAIN StartRecord)
              /\ "location_exists" \in DOMAIN StartRecord =>
                     reasons'[1]["location_exists"]
                         = StartRecord["location_exists"]]_vars

\* A call with the name "proj" on a writable directory that holds both
\* "proj" and ".spyproject": only location_exists is set, no icon is shown.
C8_Witness ==
    /\ last.op = "_validate_location"
    /\ last.name = Some("proj")
    /\ last.ret = "reasons"
    /\ last.probed
    /\ fs.kind = "dir" /\ fs.w /\ fs.proj /\ fs.spy
    /\ reasons = Some([k \in {"location_exists"} |-> TRUE])
    /\ ~icon_visible

\* The keys a call has set: those new in the record or with a new value.
SetByCall(before, after) ==
    {k \in DOMAIN after : k \notin DOMAIN before \/ after[k] # before[k]}

Messages == {MsgExists, MsgProject, MsgNotWritable, MsgNoLocation, MsgMissing}

MessageOf(k) ==
    CASE k = "location_exists" -> MsgExists
      [] k = "spyder_project_exists" -> MsgProject
      [] k = "location_not_writable" -> MsgNotWritable
      [] k = "no_location" -> MsgNoLocation
      [] k = "missing_info" -> MsgMissing

Pieces(t) == {t[i] : i \in 1..Len(t)}

NumMessages(t) == Cardinality({i \in 1..Len(t) : t[i] \in Messages})

\* The four flags of the location, in the order the text looks at them.
LocationFlags == <<"location_exists", "spyder_project_exists",
                   "location_not_writable", "no_location">>

\* The first location flag that is True, as a set (empty when none is).
FirstLocationFlag(r) ==
    {LocationFlags[i] : i \in {i \in 1..4 :
        /\ Get(r, LocationFlags[i])
        /\ \A j \in 1..(i - 1) : ~Get(r, LocationFlags[j])}}

\* C7 as stated: for every reasons record the text holds the message of
\* every flag that is True, so the number of messages is the number of
\* True flags, and the text is non-empty when a flag is True.
C7_TextHoldsEveryTrueFlag ==
    [][Compose =>
         /\ \A k \in TrueFlags(reasons[1]) : MessageOf(k) \in Pieces(label_text')
         /\ NumMessages(label_text') = Cardinality(TrueFlags(reasons[1]))
         /\ TrueFlags(reasons[1]) # {} => label_text' # <<>>]_vars

\* C7, amended: the text holds the message of missing_info when that flag
\* is True and the message of the first True flag among location_exists,
\* spyder_project_exists, location_not_writable, no_location (in this
\* order), and no other message; it is non-empty when a flag is True, and
\* the number of messages equals the number of True flags whenever at most
\* one of the four location flags is True.
C7_TextHoldsFirstLocationFlagAndMissing ==
    [][Compose =>
         /\ {m \in Messages : m \in Pieces(label_text')} =
                {MessageOf(k) : k \in FirstLocationFlag(reasons[1])
                                      \cup (TrueFlags(reasons[1])
                                            \cap {"missing_info"})}
         /\ NumMessages(label_text') =
                Cardinality(FirstLocationFlag(reasons[1]))
                + Cardinality(TrueFlags(reasons[1]) \cap {"missing_info"})
         /\ TrueFlags(reasons[1]) # {} => label_text' # <<>>
         /\ Cardinality(TrueFlags(reasons[1]) \ {"missing_info"}) <= 1 =>
                NumMessages(label_text') = Cardinality(TrueFlags(reasons[1]))]_vars

\* The text composed for a record with two location flags and missing_info:
\* one location message and the missing-fields message, as a list.
C7_Witness ==
    /\ last.op = "_compose_failed_validation_text"
    /\ reasons = Some([k \in {"location_exists", "no_location",
                              "missing_info"} |-> TRUE])
    /\ label_text = <<"- ", MsgExists, "<br>", "- ", MsgMissing>>

====
